---- MODULE Spec2Model ----
(***************************************************************************)
(* A model of src/meta.py (mp3_tagger): the metadata table reader, the     *)
(* album table check, the track matcher, the interactive review loop and   *)
(* the tag writer.                                                         *)
(*                                                                         *)
(* Strings are sequences of one-character strings.  Offsets and indices    *)
(* that the program computes are kept 0-based, as in Python; the model     *)
(* adds 1 where it indexes a TLA+ sequence.                                *)
(***************************************************************************)
EXTENDS Integers, Sequences, FiniteSets, TLC

VARIABLES
    lines,        \* readMetadataFile: file.readlines() of the metadata file
    lineIdx,      \* readMetadataFile: number of lines already processed
    currentHeader, \* readMetadataFile: currentHeader
    data,         \* readMetadataFile: data; main: the table it returned
    dir,          \* the *.mp3 files of the working directory, in glob order (path.name)
    album,        \* main: album (AlbumMetadata), NoAlbum before it is built
    audioPaths,   \* main: the part of the glob generator not yet consumed
    fileChanges,  \* main: fileChanges (list of FileChanges)
    pc,           \* where main stands
    selected,     \* promptChanges: choice (1-based), 0 when no entry is selected
    response,     \* promptBoundedInteger: the last line returned by input()
    promptAt,     \* the prompt that read it: "listing", "editing" or "none"
    msg,          \* what the last prompt iteration printed after reading the line
    shown,        \* the list printed by the last printFileChangesSummary
    returned,     \* the value promptChanges returned, NotReturned before
    opened,       \* saveChanges: the paths handed to EasyID3(path), in order
    writes,       \* saveChanges: the tags saved by audio.save(), in order
    saveIdx,      \* saveChanges: number of entries of the for loop already done
    chosen,       \* per entry, the number last entered for it at the Editing
                  \* prompt, -1 when it was never edited
    exc           \* the exception that ended the run, "" when none

vars == <<lines, lineIdx, currentHeader, data, dir, album, audioPaths,
          fileChanges, pc, selected, response, promptAt, msg, shown, returned,
          opened, writes, saveIdx, chosen, exc>>

-----------------------------------------------------------------------------
(* Bounds of the model *)

MaxTracks == 2
MaxFiles == 2
MaxLen == 2
MaxLines == 4

-----------------------------------------------------------------------------
(* Values *)

\* Python's None where a track title (a string) is expected
None == <<"<None>">>

NoAlbum == [artist |-> None, album |-> None, tracklist |-> <<>>]

NotReturned == <<[path |-> None, track |-> None, match |-> <<-1, -1>>]>>

ARTIST_HEADER == <<"a", "r", "t", "i", "s", "t">>
ALBUM_HEADER == <<"a", "l", "b", "u", "m">>
TRACKLIST_HEADER == <<"t", "r", "a", "c", "k", "l", "i", "s", "t">>

SKIPPABLE_CHARS == {"(", ")", "[", "]", "{", "}", "-", "_"}

QUIT == "q"
CANCEL == "s"
DONE == "d"
QUIT_CANCEL == {QUIT, CANCEL}
QUIT_DONE == {QUIT, DONE}

MSG_OUTSIDE == "Selection is outside the available range"
MSG_CANCELLED == "Cancelled new track selection"

-----------------------------------------------------------------------------
(* Strings *)

\* str.isspace on one character
isspace(ch) == ch \in {" ", "\t", "\n"}

\* str.lower on one character
lowerChar(ch) ==
    CASE ch = "A" -> "a"
      [] ch = "B" -> "b"
      [] ch = "Q" -> "q"
      [] ch = "X" -> "x"
      [] OTHER -> ch

\* U+0130, LATIN CAPITAL LETTER I WITH DOT ABOVE, is the one character whose
\* str.lower() is two characters: 'i' and U+0307, COMBINING DOT ABOVE
I_DOT == "U+0130"

COMBINING_DOT == "U+0307"

\* str.lower on one character, as a string
lowerOf(ch) == IF ch = I_DOT THEN <<"i", COMBINING_DOT>> ELSE <<lowerChar(ch)>>

RECURSIVE lower(_)
lower(s) == IF s = <<>> THEN <<>> ELSE lowerOf(Head(s)) \o lower(Tail(s))

\* Whitespace and brackets only: dash and underscore are kept
isSkippableChar_BracketsOnly(ch) ==
    isspace(ch) \/ ch \in {"(", ")", "[", "]", "{", "}"}

isSkippableChar(ch) == isspace(ch) \/ ch \in SKIPPABLE_CHARS

lowercaseSkippedString(string) ==
    LET unskippable(ch) == ~isSkippableChar(ch)
    IN  SelectSeq(lower(string), unskippable)

\* the 0-based indices, in string, of the characters that are kept
makeSkippedStringMap(string) ==
    LET kept(i) == ~isSkippableChar(string[i])
        idxs == SelectSeq([i \in 1..Len(string) |-> i], kept)
    IN  [j \in 1..Len(idxs) |-> idxs[j] - 1]

-----------------------------------------------------------------------------
(* Metadata Table Reader *)

\* U+FEFF, the byte-order mark
BOM == "U+FEFF"

\* The lines of readlines() are never empty
removeBOM(line) ==
    IF Len(line) > 0 /\ line[1] = BOM THEN Tail(line) ELSE line

RECURSIVE rstrip(_)
rstrip(s) ==
    IF s = <<>> THEN s
    ELSE IF isspace(s[Len(s)]) THEN rstrip(SubSeq(s, 1, Len(s) - 1))
    ELSE s

\* processLine: header is None for a line that is no header
processLine(line) ==
    LET entry == rstrip(line)
    IN  [entry |-> entry,
         header |-> IF Len(entry) > 0 /\ entry[1] = "[" /\ entry[Len(entry)] = "]"
                    THEN SubSeq(entry, 2, Len(entry) - 1)
                    ELSE None]

\* data = {'': []}
EmptyTable == [h \in {<<>>} |-> <<>>]

\* The body of the for loop without the branch that reselects a section
readStep_Clears(st, line, idx) ==
    LET p == processLine(IF idx = 0 THEN removeBOM(line) ELSE line)
    IN  IF Len(p.entry) = 0 THEN st
        ELSE IF p.header # None
        THEN [data |-> [h \in DOMAIN st.data \cup {p.header} |->
                          IF h = p.header THEN <<>> ELSE st.data[h]],
              currentHeader |-> p.header]
        ELSE [st EXCEPT !.data[st.currentHeader] = Append(@, p.entry)]

\* The body of the for loop on line number idx (0-based); st is
\* (data, currentHeader)
readStep(st, line, idx) ==
    LET p == processLine(IF idx = 0 THEN removeBOM(line) ELSE line)
    IN  IF Len(p.entry) = 0 THEN st
        ELSE IF p.header # None /\ p.header \in DOMAIN st.data
        THEN [st EXCEPT !.currentHeader = p.header]
        ELSE IF p.header # None
        THEN [data |-> [h \in DOMAIN st.data \cup {p.header} |->
                          IF h = p.header THEN <<>> ELSE st.data[h]],
              currentHeader |-> p.header]
        ELSE [st EXCEPT !.data[st.currentHeader] = Append(@, p.entry)]

RECURSIVE readFrom(_, _, _)
readFrom(st, ls, idx) ==
    IF idx >= Len(ls) THEN st
    ELSE readFrom(readStep(st, ls[idx + 1], idx), ls, idx + 1)

readMetadataFile(ls) ==
    readFrom([data |-> EmptyTable, currentHeader |-> <<>>], ls, 0)

-----------------------------------------------------------------------------
(* Album Metadata Builder *)

\* data.get(header, list()) has an entry
headerExists(table, header) ==
    header \in DOMAIN table /\ Len(table[header]) > 0

\* The builder without the check of the tracklist section
parseAlbumDataTable_NoTracklistCheck(table) ==
    IF ~headerExists(table, ARTIST_HEADER)
    THEN [exc |-> "AlbumMetadataError", err |-> "No artist", album |-> NoAlbum]
    ELSE IF ~headerExists(table, ALBUM_HEADER)
    THEN [exc |-> "AlbumMetadataError", err |-> "No album", album |-> NoAlbum]
    ELSE [exc |-> "", err |-> "",
          album |-> [artist |-> table[ARTIST_HEADER][1],
                     album |-> table[ALBUM_HEADER][1],
                     tracklist |-> IF TRACKLIST_HEADER \in DOMAIN table
                                   THEN table[TRACKLIST_HEADER] ELSE <<>>]]

parseAlbumDataTable(table) ==
    IF ~headerExists(table, ARTIST_HEADER)
    THEN [exc |-> "AlbumMetadataError", err |-> "No artist", album |-> NoAlbum]
    ELSE IF ~headerExists(table, ALBUM_HEADER)
    THEN [exc |-> "AlbumMetadataError", err |-> "No album", album |-> NoAlbum]
    ELSE IF ~headerExists(table, TRACKLIST_HEADER)
    THEN [exc |-> "AlbumMetadataError", err |-> "No tracklist", album |-> NoAlbum]
    ELSE [exc |-> "", err |-> "",
          album |-> [artist |-> table[ARTIST_HEADER][1],
                     album |-> table[ALBUM_HEADER][1],
                     tracklist |-> table[TRACKLIST_HEADER]]]

-----------------------------------------------------------------------------
(* Track Matcher *)

Min(S) == CHOOSE x \in S : \A y \in S : x <= y

\* string[offset:offset + len(pattern)], offset 0-based
windowedString(string, offset, n) == SubSeq(string, offset + 1, offset + n)

\* The two assert statements raise AssertionError on an empty argument
\* (assertions are enabled unless the interpreter runs with -O).
matchStrings(string, pattern) ==
    IF ~(Len(string) > 0) \/ ~(Len(pattern) > 0)
    THEN [exc |-> "AssertionError", start |-> 0, length |-> 0]
    ELSE IF Len(pattern) > Len(string)
    THEN [exc |-> "", start |-> 0, length |-> 0]
    ELSE LET hits == {offset \in 0..(Len(string) - Len(pattern)) :
                        windowedString(string, offset, Len(pattern)) = pattern}
         IN  IF hits = {}
             THEN [exc |-> "", start |-> 0, length |-> 0]
             ELSE [exc |-> "", start |-> Min(hits), length |-> Len(pattern)]

\* One round of the for loop: whether the new match replaces the best one
replacesBest(matchLength, bestMatchLength) == matchLength > bestMatchLength

\* The loop keeping the normalized title as the best match
RECURSIVE identifyLoop_Normalized(_, _, _, _)
identifyLoop_Normalized(file, tracklist, i, best) ==
    IF i > Len(tracklist)
    THEN best
    ELSE LET trackTitle == tracklist[i]
             track == lowercaseSkippedString(trackTitle)
             m == matchStrings(file, track)
         IN  IF m.exc # ""
             THEN [exc |-> m.exc, track |-> None, start |-> 0, length |-> 0]
             ELSE IF replacesBest(m.length, best.length)
             THEN identifyLoop_Normalized(file, tracklist, i + 1,
                               [exc |-> "", track |-> track,
                                start |-> m.start, length |-> m.length])
             ELSE identifyLoop_Normalized(file, tracklist, i + 1, best)

\* The for loop from track i on; best is (bestMatch, bestMatchStart, bestMatchLength)
RECURSIVE identifyLoop(_, _, _, _)
identifyLoop(file, tracklist, i, best) ==
    IF i > Len(tracklist)
    THEN best
    ELSE LET trackTitle == tracklist[i]
             track == lowercaseSkippedString(trackTitle)
             m == matchStrings(file, track)
         IN  IF m.exc # ""
             THEN [exc |-> m.exc, track |-> None, start |-> 0, length |-> 0]
             ELSE IF replacesBest(m.length, best.length)
             THEN identifyLoop(file, tracklist, i + 1,
                               [exc |-> "", track |-> trackTitle,
                                start |-> m.start, length |-> m.length])
             ELSE identifyLoop(file, tracklist, i + 1, best)

\* The matcher on the lowercased stem with its skippable characters kept
identifyTrackFromFilePath_Unskipped(stem, tracklist) ==
    identifyLoop(lower(stem), tracklist, 1,
                 [exc |-> "", track |-> None, start |-> 0, length |-> 0])

\* stem is path.stem
identifyTrackFromFilePath(stem, tracklist) ==
    identifyLoop(lowercaseSkippedString(stem), tracklist, 1,
                 [exc |-> "", track |-> None, start |-> 0, length |-> 0])

\* path.stem of a path found by glob("*.mp3"); path is path.name
pathStem(path) ==
    IF Len(path) > 4 THEN SubSeq(path, 1, Len(path) - 4) ELSE path

FileChanges(path, track, match) == [path |-> path, track |-> track, match |-> match]

\* indexMap[i] of splitMatchedString, i 0-based; -1 stands for IndexError.
\* A negative i counts from the end, as Python indexing does.
indexMapAt(indexMap, i) ==
    IF i >= 0 /\ i < Len(indexMap) THEN indexMap[i + 1]
    ELSE IF i < 0 /\ -i <= Len(indexMap) THEN indexMap[Len(indexMap) + i + 1]
    ELSE -1

\* string[a:b] for 0 <= a, 0 <= b
slice(string, a, b) ==
    LET hi == IF b > Len(string) THEN Len(string) ELSE b
    IN  IF a >= hi THEN <<>> ELSE SubSeq(string, a + 1, hi)

splitMatchedString(string, matchStart, matchLength) ==
    LET indexMap == makeSkippedStringMap(string)
        start == indexMapAt(indexMap, matchStart)
        last == indexMapAt(indexMap, matchStart + matchLength - 1)
        end == last + 1
    IN  IF start = -1 \/ last = -1
        THEN [exc |-> "IndexError", pre |-> <<>>, match |-> <<>>, post |-> <<>>]
        ELSE [exc |-> "", pre |-> slice(string, 0, start),
              match |-> slice(string, start, end),
              post |-> slice(string, end, Len(string))]

\* The exception printFileChange raises, "" when it prints its line
printFileChange(changes) ==
    IF changes.track = None THEN ""
    ELSE IF changes.match # <<0, 0>>
    THEN splitMatchedString(changes.path, changes.match[1], changes.match[2]).exc
    ELSE ""

\* The exception printFileChangesSummary raises, "" when it prints every line
printFileChangesSummary(changesList) ==
    IF \E i \in 1..Len(changesList) : printFileChange(changesList[i]) # ""
    THEN "IndexError"
    ELSE ""

-----------------------------------------------------------------------------
(* Prompts *)

Digits == <<"0", "1", "2", "3", "4", "5", "6", "7", "8", "9">>

isDigit(ch) == \E d \in 1..Len(Digits) : Digits[d] = ch

digitValue(ch) == (CHOOSE d \in 1..Len(Digits) : Digits[d] = ch) - 1

RECURSIVE strip(_)
strip(s) ==
    IF s = <<>> THEN s
    ELSE IF isspace(s[1]) THEN strip(Tail(s))
    ELSE IF isspace(s[Len(s)]) THEN strip(SubSeq(s, 1, Len(s) - 1))
    ELSE s

RECURSIVE decimalValue(_)
decimalValue(digits) ==
    IF digits = <<>> THEN 0
    ELSE 10 * decimalValue(SubSeq(digits, 1, Len(digits) - 1))
         + digitValue(digits[Len(digits)])

\* int(response): surrounding whitespace, an optional sign, decimal digits
int(s) ==
    LET t == strip(s)
        signed == Len(t) > 0 /\ t[1] \in {"+", "-"}
        body == IF signed THEN Tail(t) ELSE t
    IN  IF body = <<>> \/ \E i \in 1..Len(body) : ~isDigit(body[i])
        THEN [exc |-> "ValueError", value |-> 0]
        ELSE [exc |-> "", value |-> IF signed /\ t[1] = "-"
                                    THEN -decimalValue(body)
                                    ELSE decimalValue(body)]

\* promptBoundedInteger comparing the line itself with 'q'
promptBoundedInteger_CaseSensitive(resp, lo, hi, signal) ==
    IF resp = <<>> /\ CANCEL \in signal
    THEN [kind |-> "UserCancel", choice |-> 0, out |-> ""]
    ELSE IF resp = <<>> /\ DONE \in signal
    THEN [kind |-> "UserDone", choice |-> 0, out |-> ""]
    ELSE IF resp = <<"q">> /\ QUIT \in signal
    THEN [kind |-> "UserQuit", choice |-> 0, out |-> ""]
    ELSE LET n == int(resp)
         IN  IF n.exc # ""
             THEN [kind |-> "again", choice |-> 0, out |-> ""]
             ELSE IF n.value < lo \/ n.value > hi
             THEN [kind |-> "again", choice |-> 0, out |-> MSG_OUTSIDE]
             ELSE [kind |-> "return", choice |-> n.value, out |-> ""]

\* promptBoundedInteger without the except ValueError clause
promptBoundedInteger_NoExcept(resp, lo, hi, signal) ==
    IF resp = <<>> /\ CANCEL \in signal
    THEN [kind |-> "UserCancel", choice |-> 0, out |-> ""]
    ELSE IF resp = <<>> /\ DONE \in signal
    THEN [kind |-> "UserDone", choice |-> 0, out |-> ""]
    ELSE IF lower(resp) = <<"q">> /\ QUIT \in signal
    THEN [kind |-> "UserQuit", choice |-> 0, out |-> ""]
    ELSE LET n == int(resp)
         IN  IF n.exc # ""
             THEN [kind |-> n.exc, choice |-> 0, out |-> ""]
             ELSE IF n.value < lo \/ n.value > hi
             THEN [kind |-> "again", choice |-> 0, out |-> MSG_OUTSIDE]
             ELSE [kind |-> "return", choice |-> n.value, out |-> ""]

\* One round of the while loop of promptBoundedInteger on the line read:
\* an exception raised, the choice returned, or ("again") the next round.
promptBoundedInteger(resp, lo, hi, signal) ==
    IF resp = <<>> /\ CANCEL \in signal
    THEN [kind |-> "UserCancel", choice |-> 0, out |-> ""]
    ELSE IF resp = <<>> /\ DONE \in signal
    THEN [kind |-> "UserDone", choice |-> 0, out |-> ""]
    ELSE IF lower(resp) = <<"q">> /\ QUIT \in signal
    THEN [kind |-> "UserQuit", choice |-> 0, out |-> ""]
    ELSE LET n == int(resp)
         IN  IF n.exc # ""
             THEN [kind |-> "again", choice |-> 0, out |-> ""]
             ELSE IF n.value < lo \/ n.value > hi
             THEN [kind |-> "again", choice |-> 0, out |-> MSG_OUTSIDE]
             ELSE [kind |-> "return", choice |-> n.value, out |-> ""]

\* The 1-based position that list[i] reads (i 0-based, a negative i counts
\* from the end); 0 stands for IndexError
pyIndex(n, i) ==
    IF i >= 0 /\ i < n THEN i + 1
    ELSE IF i < 0 /\ -i <= n THEN n + i + 1
    ELSE 0

\* promptTrackSelect prompting with the signals of the Listing prompt
promptTrackSelect_DoneSignal(tracklist, resp) ==
    LET p == promptBoundedInteger(resp, 0, Len(tracklist), QUIT_DONE)
        pos == pyIndex(Len(tracklist), p.choice - 1)
    IN  IF p.kind # "return" THEN [kind |-> p.kind, track |-> None, out |-> p.out]
        ELSE IF p.choice = 0 THEN [kind |-> "return", track |-> None, out |-> ""]
        ELSE IF pos = 0 THEN [kind |-> "IndexError", track |-> None, out |-> ""]
        ELSE [kind |-> "return", track |-> tracklist[pos], out |-> ""]

\* promptTrackSelect on the line read
promptTrackSelect(tracklist, resp) ==
    LET p == promptBoundedInteger(resp, 0, Len(tracklist), QUIT_CANCEL)
        pos == pyIndex(Len(tracklist), p.choice - 1)
    IN  IF p.kind # "return" THEN [kind |-> p.kind, track |-> None, out |-> p.out]
        ELSE IF p.choice = 0 THEN [kind |-> "return", track |-> None, out |-> ""]
        ELSE IF pos = 0 THEN [kind |-> "IndexError", track |-> None, out |-> ""]
        ELSE [kind |-> "return", track |-> tracklist[pos], out |-> ""]

\* Lines 263-266 on the line read: the Listing prompt, then the selection
selectChange(changesList, resp) ==
    LET p == promptBoundedInteger(resp, 1, Len(changesList), QUIT_DONE)
        pos == pyIndex(Len(changesList), p.choice - 1)
    IN  IF p.kind # "return" THEN [kind |-> p.kind, pos |-> 0, out |-> p.out]
        ELSE IF pos = 0 THEN [kind |-> "IndexError", pos |-> 0, out |-> ""]
        ELSE IF printFileChange(changesList[pos]) # ""
        THEN [kind |-> printFileChange(changesList[pos]), pos |-> 0, out |-> ""]
        ELSE [kind |-> "return", pos |-> pos, out |-> ""]

\* The assignment that keeps the match when the track is removed
assignTrack_NoneKeepsMatch(changesList, pos, newTrack) ==
    [changesList EXCEPT ![pos] =
        [@ EXCEPT !.track = newTrack,
                  !.match = IF newTrack = None THEN @ ELSE <<0, 0>>]]

\* The assignment of the new track to every entry
assignTrack_All(changesList, pos, newTrack) ==
    [i \in 1..Len(changesList) |->
        [changesList[i] EXCEPT !.track = newTrack, !.match = <<0, 0>>]]

\* The assignment without the reset of the match
assignTrack_KeepsMatch(changesList, pos, newTrack) ==
    [changesList EXCEPT ![pos] = [@ EXCEPT !.track = newTrack]]

\* Lines 269-270: changes.track = newTrack; changes.match = (0,0)
assignTrack(changesList, pos, newTrack) ==
    [changesList EXCEPT ![pos] = [@ EXCEPT !.track = newTrack, !.match = <<0, 0>>]]

\* The except UserDone clause continuing the loop
exceptClauses_DoneContinues(kind) ==
    IF kind = "UserCancel" THEN "continue"
    ELSE IF kind = "UserDone" THEN "continue"
    ELSE kind

\* The except clauses of promptChanges: what an exception raised in the try
\* block becomes ("continue", "return" or the exception, which propagates)
exceptClauses(kind) ==
    IF kind = "UserCancel" THEN "continue"
    ELSE IF kind = "UserDone" THEN "return"
    ELSE kind

\* main without the return in its except UserQuit clause
afterPromptChanges_NoReturn(kind) ==
    IF kind = "return" THEN "saving"
    ELSE IF kind = "UserQuit" THEN "saving"
    ELSE "crashed"

\* main after promptChanges: pc after a return or an exception
afterPromptChanges(kind) ==
    IF kind = "return" THEN "saving"
    ELSE IF kind = "UserQuit" THEN "quit"
    ELSE "crashed"

\* The top of the while loop of promptChanges prints the list
loopTop(changesList) ==
    IF printFileChangesSummary(changesList) # ""
    THEN printFileChangesSummary(changesList)
    ELSE "listing"

-----------------------------------------------------------------------------
(* Metadata Writer *)

\* list.index(x), 0-based; -1 stands for ValueError
index(list, x) ==
    IF \E i \in 1..Len(list) : list[i] = x
    THEN Min({i \in 1..Len(list) : list[i] = x}) - 1
    ELSE -1

RECURSIVE str(_)
str(n) ==
    IF n < 10 THEN <<Digits[n + 1]>>
    ELSE str(n \div 10) \o <<Digits[(n % 10) + 1]>>

\* The tags with the 0-based position as track number
savedTags_ZeroBased(changes, alb) ==
    [path |-> changes.path,
     artist |-> alb.artist,
     albumartist |-> alb.artist,
     album |-> alb.album,
     title |-> changes.track,
     tracknumber |-> str(index(alb.tracklist, changes.track))]

\* The tags set on one file and saved
savedTags(changes, alb) ==
    [path |-> changes.path,
     artist |-> alb.artist,
     albumartist |-> alb.artist,
     album |-> alb.album,
     title |-> changes.track,
     tracknumber |-> str(index(alb.tracklist, changes.track) + 1)]

-----------------------------------------------------------------------------
(* Inputs *)

Mp3(stem) == stem \o <<".", "m", "p", "3">>

\* Sequences over S of length lo..hi
SeqsOf(S, lo, hi) == UNION {[1..n -> S] : n \in lo..hi}

Injective(s) == \A i, j \in 1..Len(s) : i # j => s[i] # s[j]

\* Entries of the table: non-empty lines, right-stripped, not headers
TitlePool == {<<"a">>, <<"A", " ", "b">>, <<"(", ")">>,
              <<I_DOT, I_DOT, I_DOT, I_DOT, I_DOT>>}

ArtistEntries == <<<<"X">>, <<"Y">>>>

AlbumEntries == <<<<"Z">>>>

\* File names of the working directory
DirPool == {Mp3(<<"a", "_", "B">>), Mp3(<<"b", "-", "a">>),
            Mp3(<<I_DOT, I_DOT, I_DOT, I_DOT, I_DOT>>), Mp3(<<"_">>)}

\* A section that the file does not have
Absent == <<<<"<absent>">>>>

\* A line of the file: the text and the line end
Line(text) == text \o <<"\n">>

\* The lines of a section: its header and its entries, none when Absent
SectionLines(header, entries) ==
    IF entries = Absent THEN <<>>
    ELSE <<Line(<<"[">> \o header \o <<"]">>)>>
         \o [i \in 1..Len(entries) |-> Line(entries[i])]

MetaFile(a, b, t) ==
    SectionLines(ARTIST_HEADER, a) \o SectionLines(ALBUM_HEADER, b)
    \o SectionLines(TRACKLIST_HEADER, t)

\* Metadata files with a section missing, a section empty, or all three
MetaFiles ==
    {MetaFile(a, b, t) : a \in {Absent, ArtistEntries},
                         b \in {<<>>, AlbumEntries},
                         t \in {Absent} \cup SeqsOf(TitlePool, 0, MaxTracks)}

Dirs == {d \in SeqsOf(DirPool, 0, MaxFiles) : Injective(d)}

\* The lines the user may type: the signals, letters that are no signal at
\* a prompt, and integers in and around the bounds of the prompts
MaxChoice == IF MaxTracks > MaxFiles THEN MaxTracks ELSE MaxFiles

ResponsePool ==
    {<<>>, <<"q">>, <<"Q">>, <<"s">>, <<"d">>, <<"-", "1">>, <<" ", "1">>}
    \cup {str(k) : k \in 0..(MaxChoice + 1)}

NoResponse == None

-----------------------------------------------------------------------------
(* main *)

Init ==
    /\ lines \in MetaFiles
    /\ lineIdx = 0
    /\ currentHeader = <<>>
    /\ data = EmptyTable
    /\ dir \in Dirs
    /\ album = NoAlbum
    /\ audioPaths = <<>>
    /\ fileChanges = <<>>
    /\ pc = "start"
    /\ selected = 0
    /\ response = NoResponse
    /\ promptAt = "none"
    /\ msg = ""
    /\ shown = <<>>
    /\ returned = NotReturned
    /\ opened = <<>>
    /\ writes = <<>>
    /\ saveIdx = 0
    /\ chosen = <<>>
    /\ exc = ""

\* Lines 316-326: build the album or report the table-format error
ReadAndParse ==
    /\ pc = "start"
    /\ LET st == readMetadataFile(lines)
           p == parseAlbumDataTable(st.data)
       IN  /\ data' = st.data
           /\ currentHeader' = st.currentHeader
           /\ lineIdx' = Len(lines)
           /\ IF p.exc # ""
              THEN /\ pc' = "error"
                   /\ msg' = p.err
                   /\ UNCHANGED <<album, audioPaths>>
              ELSE /\ pc' = "discover"
                   /\ msg' = "Read album metadata"
                   /\ album' = p.album
                   /\ audioPaths' = dir
    /\ UNCHANGED <<lines, dir, fileChanges, selected, response, promptAt, shown,
                   returned, opened, writes, saveIdx, chosen, exc>>

\* Lines 329-331: one round of the for loop over the audio paths
Discover ==
    /\ pc = "discover"
    /\ audioPaths # <<>>
    /\ LET path == Head(audioPaths)
           r == identifyTrackFromFilePath(pathStem(path), album.tracklist)
       IN  IF r.exc # ""
           THEN /\ pc' = "crashed"
                /\ exc' = r.exc
                /\ UNCHANGED <<fileChanges, chosen>>
           ELSE /\ fileChanges' = Append(fileChanges,
                                         FileChanges(path, r.track, <<r.start, r.length>>))
                /\ chosen' = Append(chosen, -1)
                /\ UNCHANGED <<pc, exc>>
    /\ audioPaths' = Tail(audioPaths)
    /\ UNCHANGED <<lines, lineIdx, currentHeader, data, dir, album, selected,
                   response, promptAt, msg, shown, returned, opened, writes,
                   saveIdx>>

\* Line 334 and lines 258-262: promptChanges is entered and prints the list
StartReview ==
    /\ pc = "discover"
    /\ audioPaths = <<>>
    /\ LET top == loopTop(fileChanges)
       IN  IF top = "listing"
           THEN /\ pc' = "listing"
                /\ shown' = fileChanges
                /\ exc' = exc
           ELSE /\ pc' = afterPromptChanges(top)
                /\ exc' = top
                /\ shown' = shown
    /\ UNCHANGED <<lines, lineIdx, currentHeader, data, dir, album, audioPaths,
                   fileChanges, selected, response, promptAt, msg, returned,
                   opened, writes, saveIdx, chosen>>

\* What both prompts do with a signal or an exception of kind k raised in
\* the try block of promptChanges
Leave(k, changesList) ==
    LET h == exceptClauses(k)
        top == loopTop(changesList)
    IN  IF h = "continue" /\ top = "listing"
        THEN /\ pc' = "listing"
             /\ msg' = MSG_CANCELLED
             /\ shown' = changesList
             /\ UNCHANGED <<returned, exc>>
        ELSE LET e == IF h = "continue" THEN top ELSE h
             IN  /\ pc' = afterPromptChanges(e)
                 /\ msg' = IF e = "UserQuit"
                           THEN "No changes were made to the files." ELSE ""
                 /\ returned' = IF e = "return" THEN changesList ELSE returned
                 /\ exc' = IF afterPromptChanges(e) = "crashed" THEN e ELSE exc
                 /\ shown' = shown

\* One line read at the Listing prompt (line 263) and what follows it
Listing ==
    /\ pc = "listing"
    /\ \E resp \in ResponsePool :
         LET s == selectChange(fileChanges, resp)
         IN  /\ response' = resp
             /\ promptAt' = pc
             /\ IF s.kind = "again"
                THEN /\ msg' = s.out
                     /\ UNCHANGED <<pc, selected, shown, returned, exc>>
                ELSE IF s.kind = "return"
                THEN /\ pc' = "editing"
                     /\ selected' = s.pos
                     /\ msg' = ""
                     /\ UNCHANGED <<shown, returned, exc>>
                ELSE /\ Leave(s.kind, fileChanges)
                     /\ selected' = 0
    /\ UNCHANGED <<lines, lineIdx, currentHeader, data, dir, album, audioPaths,
                   fileChanges, opened, writes, saveIdx, chosen>>

\* One line read at the Editing prompt (line 268, promptTrackSelect) and
\* what follows it (lines 269-271, then the top of the loop)
Editing ==
    /\ pc = "editing"
    /\ \E resp \in ResponsePool :
         LET t == promptTrackSelect(album.tracklist, resp)
         IN  /\ response' = resp
             /\ promptAt' = pc
             /\ IF t.kind = "again"
                THEN /\ msg' = t.out
                     /\ UNCHANGED <<pc, selected, shown, returned, exc,
                                    fileChanges, chosen>>
                ELSE IF t.kind = "return"
                THEN LET new == assignTrack(fileChanges, selected, t.track)
                         top == loopTop(new)
                     IN  /\ fileChanges' = new
                         /\ chosen' = [chosen EXCEPT ![selected] =
                               promptBoundedInteger(resp, 0, Len(album.tracklist),
                                                    QUIT_CANCEL).choice]
                         /\ selected' = 0
                         /\ msg' = ""
                         /\ returned' = returned
                         /\ IF top = "listing"
                            THEN /\ pc' = "listing"
                                 /\ shown' = new
                                 /\ exc' = exc
                            ELSE /\ pc' = afterPromptChanges(top)
                                 /\ exc' = top
                                 /\ shown' = shown
                ELSE /\ Leave(t.kind, fileChanges)
                     /\ selected' = 0
                     /\ UNCHANGED <<fileChanges, chosen>>
    /\ UNCHANGED <<lines, lineIdx, currentHeader, data, dir, album, audioPaths,
                   opened, writes, saveIdx>>

\* Lines 282-293: one round of the for loop of saveChanges
SaveStep ==
    /\ pc = "saving"
    /\ saveIdx < Len(fileChanges)
    /\ LET changes == fileChanges[saveIdx + 1]
       IN  IF changes.track = None
           THEN UNCHANGED <<opened, writes, pc, exc>>
           ELSE /\ opened' = Append(opened, changes.path)
                /\ IF index(album.tracklist, changes.track) = -1
                   THEN /\ pc' = "crashed"
                        /\ exc' = "ValueError"
                        /\ UNCHANGED writes
                   ELSE /\ writes' = Append(writes, savedTags(changes, album))
                        /\ UNCHANGED <<pc, exc>>
    /\ saveIdx' = saveIdx + 1
    /\ UNCHANGED <<lines, lineIdx, currentHeader, data, dir, album, audioPaths,
                   fileChanges, selected, response, promptAt, msg, shown,
                   returned, chosen>>

\* Lines 342-343: saveChanges has returned
SaveDone ==
    /\ pc = "saving"
    /\ saveIdx = Len(fileChanges)
    /\ pc' = "done"
    /\ msg' = "Changes saved to files!"
    /\ UNCHANGED <<lines, lineIdx, currentHeader, data, dir, album, audioPaths,
                   fileChanges, selected, response, promptAt, shown, returned,
                   opened, writes, saveIdx, chosen, exc>>

Next ==
    \/ ReadAndParse
    \/ Discover
    \/ StartReview
    \/ Listing
    \/ Editing
    \/ SaveStep
    \/ SaveDone

Spec == Init /\ [][Next]_vars

-----------------------------------------------------------------------------
(* The matcher on every short file name and tracklist: main from the call of
   glob on, with one file in the directory *)

Alphabet == {"a", "A", "-"}

Strings == SeqsOf(Alphabet, 1, MaxLen)

InitMatch ==
    /\ lines \in {MetaFile(ArtistEntries, AlbumEntries, t) :
                     t \in SeqsOf(Strings, 1, MaxTracks)}
    /\ lineIdx = Len(lines)
    /\ currentHeader = readMetadataFile(lines).currentHeader
    /\ data = readMetadataFile(lines).data
    /\ dir \in {<<Mp3(stem)>> : stem \in Strings}
    /\ album = parseAlbumDataTable(data).album
    /\ audioPaths = dir
    /\ fileChanges = <<>>
    /\ pc = "discover"
    /\ selected = 0
    /\ response = NoResponse
    /\ promptAt = "none"
    /\ msg = "Read album metadata"
    /\ shown = <<>>
    /\ returned = NotReturned
    /\ opened = <<>>
    /\ writes = <<>>
    /\ saveIdx = 0
    /\ chosen = <<>>
    /\ exc = ""

NextMatch == Discover

SpecMatch == InitMatch /\ [][NextMatch]_vars

-----------------------------------------------------------------------------
(* readMetadataFile on every short file, one line of the for loop per step *)

\* Lines as readlines() yields them: headers, a header of the empty name,
\* entries, an entry with trailing whitespace, blank lines, and a line that
\* starts with the byte-order mark
LinePool == {Line(<<"[", "a", "]">>), Line(<<"[", "b", "]">>), Line(<<"[", "]">>),
             Line(<<"x">>), Line(<<"y", " ">>), Line(<<>>), Line(<<" ">>),
             Line(<<BOM, "[", "a", "]">>)}

InitRead ==
    /\ lines \in SeqsOf(LinePool, 0, MaxLines)
    /\ lineIdx = 0
    /\ currentHeader = <<>>
    /\ data = EmptyTable
    /\ dir = <<>>
    /\ album = NoAlbum
    /\ audioPaths = <<>>
    /\ fileChanges = <<>>
    /\ pc = "start"
    /\ selected = 0
    /\ response = NoResponse
    /\ promptAt = "none"
    /\ msg = ""
    /\ shown = <<>>
    /\ returned = NotReturned
    /\ opened = <<>>
    /\ writes = <<>>
    /\ saveIdx = 0
    /\ chosen = <<>>
    /\ exc = ""

\* Lines 53-69: one round of the for loop
ReadLine ==
    /\ pc = "start"
    /\ lineIdx < Len(lines)
    /\ LET st == readStep([data |-> data, currentHeader |-> currentHeader],
                          lines[lineIdx + 1], lineIdx)
       IN  /\ data' = st.data
           /\ currentHeader' = st.currentHeader
    /\ lineIdx' = lineIdx + 1
    /\ UNCHANGED <<lines, dir, album, audioPaths, fileChanges, pc, selected,
                   response, promptAt, msg, shown, returned, opened, writes,
                   saveIdx, chosen, exc>>

NextRead == ReadLine

SpecRead == InitRead /\ [][NextRead]_vars

-----------------------------------------------------------------------------
(* The matcher on file names and titles that differ in letter case and in
   skippable characters: main from the call of glob on, with one file *)

NormPool == {<<"a">>, <<"A">>, <<"a", "b">>, <<"a", "_", "B">>,
             <<"A", " ", "b">>, <<"-", "a">>, <<"(", "a", ")">>, <<"_">>}

InitNorm ==
    /\ lines \in {MetaFile(ArtistEntries, AlbumEntries, t) :
                     t \in SeqsOf(NormPool, 1, MaxTracks)}
    /\ lineIdx = Len(lines)
    /\ currentHeader = readMetadataFile(lines).currentHeader
    /\ data = readMetadataFile(lines).data
    /\ dir \in {<<Mp3(stem)>> : stem \in NormPool}
    /\ album = parseAlbumDataTable(data).album
    /\ audioPaths = dir
    /\ fileChanges = <<>>
    /\ pc = "discover"
    /\ selected = 0
    /\ response = NoResponse
    /\ promptAt = "none"
    /\ msg = "Read album metadata"
    /\ shown = <<>>
    /\ returned = NotReturned
    /\ opened = <<>>
    /\ writes = <<>>
    /\ saveIdx = 0
    /\ chosen = <<>>
    /\ exc = ""

NextNorm == Discover

SpecNorm == InitNorm /\ [][NextNorm]_vars

-----------------------------------------------------------------------------
(* Properties of the review session *)

QuitLines == {<<"q">>, <<"Q">>}

\* An entry that an edit has assigned a title to
Edited(changes) == changes.track # None /\ changes.match = <<0, 0>>

\* The bounds of the prompt at pc
LowerBound(at) == IF at = "listing" THEN 1 ELSE 0

UpperBound(at) == IF at = "listing" THEN Len(fileChanges) ELSE Len(album.tracklist)

\* The line is an integer within the bounds of the prompt
InRange(line, at) ==
    /\ int(line).exc = ""
    /\ int(line).value >= LowerBound(at)
    /\ int(line).value <= UpperBound(at)

\* C1: no file is opened and no tag is saved before promptChanges has
\* returned the list through Done (an empty line at the Listing prompt);
\* once the session has ended by Quit, no file has been opened or saved.
C1_NoWriteBeforeDone ==
    /\ (opened # <<>> \/ writes # <<>>) =>
          /\ returned # NotReturned
          /\ returned = fileChanges
          /\ promptAt = "listing" /\ response = <<>>
          /\ pc \in {"saving", "done"}
    /\ (pc = "quit" \/ response \in QuitLines) =>
          /\ pc = "quit"
          /\ opened = <<>> /\ writes = <<>>
          /\ returned = NotReturned

\* Quit at the Editing prompt after an edit
C1_Witness ==
    /\ pc = "quit"
    /\ promptAt = "editing"
    /\ \E i \in 1..Len(fileChanges) : Edited(fileChanges[i])

\* C2: a line 'q' or 'Q' read at the Listing or at the Editing prompt ends
\* the session with Quit: the run is over, nothing was returned, selected
\* or raised, whatever was edited before.
C2_QuitAtAnyPrompt ==
    (promptAt \in {"listing", "editing"} /\ response \in QuitLines) =>
        /\ pc = "quit"
        /\ exc = ""
        /\ selected = 0
        /\ returned = NotReturned

\* 'Q' at the Listing prompt after an edit
C2_Witness ==
    /\ promptAt = "listing"
    /\ response = <<"Q">>
    /\ pc = "quit"
    /\ \E i \in 1..Len(fileChanges) : Edited(fileChanges[i])

\* C3: an empty line at the Listing prompt ends the session with Done, and
\* the list returned is the list that the Listing prompt showed.
C3_EmptyAtListingIsDone ==
    [][(pc = "listing" /\ response' = <<>>) =>
          /\ pc' = "saving"
          /\ returned' = shown
          /\ returned' = fileChanges
          /\ fileChanges' = fileChanges
          /\ exc' = ""]_vars

\* Done after an edit: the returned list holds the edit
C3_Witness ==
    /\ promptAt = "listing"
    /\ response = <<>>
    /\ pc = "saving"
    /\ returned = shown
    /\ \E i \in 1..Len(returned) : Edited(returned[i])

\* C4: a number k in [0, K] read at the Editing prompt sets the track of the
\* selected entry to tracklist[k-1], or to None when k = 0, sets its match
\* to (0,0), leaves the rest of the list alone and returns to Listing.
C4_NumericChoiceAssigns ==
    [][(pc = "editing" /\ InRange(response', "editing")) =>
          LET k == int(response').value
              newTrack == IF k = 0 THEN None ELSE album.tracklist[k]
          IN  /\ pc' = "listing"
              /\ Len(fileChanges') = Len(fileChanges)
              /\ fileChanges'[selected].track = newTrack
              /\ fileChanges'[selected].match = <<0, 0>>
              /\ fileChanges'[selected].path = fileChanges[selected].path
              /\ \A j \in 1..Len(fileChanges) :
                    j # selected => fileChanges'[j] = fileChanges[j]]_vars

\* The title that the matcher had assigned is chosen again: the match is reset
C4_Witness ==
    /\ promptAt = "editing"
    /\ pc = "listing"
    /\ InRange(response, "editing")
    /\ \E i \in 1..Len(fileChanges) :
          /\ Edited(fileChanges[i])
          /\ fileChanges[i].track = album.tracklist[int(response).value]
          /\ fileChanges[i].track =
                identifyTrackFromFilePath(pathStem(fileChanges[i].path),
                                          album.tracklist).track

\* C5: an empty line at the Editing prompt is Cancel: the session goes back
\* to Listing with the list, hence the selected entry, as it was shown
\* before the selection; nothing is returned and the session does not end.
C5_EmptyAtEditingIsCancel ==
    /\ [](pc = "editing" => (fileChanges = shown /\ selected \in 1..Len(fileChanges)))
    /\ [][(pc = "editing" /\ response' = <<>>) =>
             /\ pc' = "listing"
             /\ fileChanges' = fileChanges
             /\ shown' = shown
             /\ msg' = MSG_CANCELLED
             /\ returned' = NotReturned
             /\ exc' = ""]_vars

\* Cancel on an entry that the matcher had matched: the match is kept
C5_Witness ==
    /\ promptAt = "editing"
    /\ response = <<>>
    /\ pc = "listing"
    /\ \E i \in 1..Len(fileChanges) : fileChanges[i].match[2] > 0

\* C6: the track of every entry is None or a title of the tracklist.
C6_TrackInTracklist ==
    \A i \in 1..Len(fileChanges) :
        fileChanges[i].track # None =>
            \E k \in 1..Len(album.tracklist) : album.tracklist[k] = fileChanges[i].track

\* Entries assigned by the matcher and by an edit
C6_Witness ==
    /\ pc = "listing"
    /\ \E i, j \in 1..Len(fileChanges) :
          /\ Edited(fileChanges[i])
          /\ fileChanges[j].match[2] > 0

\* C7: a line that is no signal of the prompt and no integer within its
\* bounds changes nothing and raises nothing: the same prompt reads the next
\* line, after the 'outside range' message when the line is an integer and
\* after no message when it is not.  Only a signal or an integer within
\* the bounds leaves the prompt.
C7_BadInputReprompts ==
    [][(pc \in {"listing", "editing"}
          /\ response' # <<>>
          /\ response' \notin QuitLines
          /\ ~InRange(response', pc)) =>
             /\ pc' = pc
             /\ fileChanges' = fileChanges
             /\ selected' = selected
             /\ shown' = shown
             /\ returned' = returned
             /\ exc' = ""
             /\ msg' = IF int(response').exc = "" THEN MSG_OUTSIDE ELSE ""]_vars

\* An integer outside the bounds at the Editing prompt
C7_Witness ==
    /\ pc = "editing"
    /\ promptAt = "editing"
    /\ msg = MSG_OUTSIDE
    /\ int(response).exc = ""

-----------------------------------------------------------------------------
(* Properties of the matcher *)

\* pattern is string[offset:offset + len(pattern)], offset 0-based
OccursAt(pattern, string, offset) ==
    /\ offset >= 0
    /\ offset + Len(pattern) <= Len(string)
    /\ \A j \in 1..Len(pattern) : string[offset + j] = pattern[j]

Occurs(pattern, string) == \E offset \in 0..Len(string) : OccursAt(pattern, string, offset)

\* The match length of a title in a file name: the length of its normalized
\* form when that is not empty and occurs in the normalized file name
MatchLength(title, stem) ==
    LET t == lowercaseSkippedString(title)
        f == lowercaseSkippedString(stem)
    IN  IF Len(t) > 0 /\ Occurs(t, f) THEN Len(t) ELSE 0

Max(S) == CHOOSE x \in S : \A y \in S : x >= y

\* The earliest title of the greatest positive match length, None without one
EarliestBest(stem, tracklist) ==
    LET lens == {MatchLength(tracklist[k], stem) : k \in 1..Len(tracklist)}
        best == Max(lens \cup {0})
    IN  IF best = 0 THEN None
        ELSE tracklist[Min({k \in 1..Len(tracklist) :
                              MatchLength(tracklist[k], stem) = best})]

SkippableOnly(title) == lowercaseSkippedString(title) = <<>>

\* main has called the matcher on every file of the directory
Matched == pc # "start" /\ album # NoAlbum /\ audioPaths = <<>>

\* C8 as claimed: for every file name and tracklist the matcher returns the
\* earliest title among those of the greatest positive match length.
C8_ReturnsEarliestBest ==
    Matched =>
        /\ Len(fileChanges) = Len(dir)
        /\ \A i \in 1..Len(dir) :
              fileChanges[i].track = EarliestBest(pathStem(dir[i]), album.tracklist)

\* C9 as claimed: for every file name and tracklist the matcher returns
\* (None,0,0) when no normalized title occurs in the normalized file name;
\* otherwise the length returned is at most the lengths of both normalized
\* strings and the normalized title returned occurs at the start returned.
C9_ReturnsNoneOrOccurrence ==
    Matched =>
        /\ Len(fileChanges) = Len(dir)
        /\ \A i \in 1..Len(dir) :
              LET f == lowercaseSkippedString(pathStem(dir[i]))
                  c == fileChanges[i]
                  t == lowercaseSkippedString(c.track)
              IN  IF \A k \in 1..Len(album.tracklist) :
                        ~Occurs(lowercaseSkippedString(album.tracklist[k]), f)
                  THEN c.track = None /\ c.match = <<0, 0>>
                  ELSE c.track # None =>
                          /\ c.match[2] <= Len(f)
                          /\ c.match[2] <= Len(t)
                          /\ OccursAt(t, f, c.match[1])

\* C10 as claimed: with a title of skippable characters only in the
\* tracklist, the search for its empty normalized form finds no match and
\* raises nothing, the matcher returns what it returns for the other titles,
\* and that title is never the track returned.
C10_EmptyTitleNeverMatches ==
    (Matched /\ \E k \in 1..Len(album.tracklist) : SkippableOnly(album.tracklist[k])) =>
        LET others == SelectSeq(album.tracklist, LAMBDA t : ~SkippableOnly(t))
        IN  /\ exc = ""
            /\ Len(fileChanges) = Len(dir)
            /\ \A i \in 1..Len(dir) :
                  LET f == lowercaseSkippedString(pathStem(dir[i]))
                      r == identifyTrackFromFilePath(pathStem(dir[i]), others)
                  IN  /\ matchStrings(f, <<>>) = [exc |-> "", start |-> 0, length |-> 0]
                      /\ ~SkippableOnly(fileChanges[i].track)
                      /\ fileChanges[i].track = r.track
                      /\ fileChanges[i].match = <<r.start, r.length>>

-----------------------------------------------------------------------------
(* Properties of the writer and of the album builder *)

\* The position (1-based) of the first occurrence of title in tracklist
FirstPosition(tracklist, title) ==
    Min({k \in 1..Len(tracklist) : tracklist[k] = title})

\* The entries of the confirmed list that saveChanges has gone through and
\* whose track is not None, in order
Tagged == SelectSeq(SubSeq(fileChanges, 1, saveIdx), LAMBDA c : c.track # None)

\* C11: while and after saveChanges runs on the confirmed list, the files
\* opened are exactly the entries gone through whose track is not None, in
\* order, and each was written artist, album-artist = artist, album,
\* title = track and track-number = the 1-based position of the track in the
\* tracklist; an entry whose track is None is neither opened nor written.
C11_SaveWritesTags ==
    pc \in {"saving", "done"} =>
        /\ fileChanges = returned
        /\ Len(opened) = Len(Tagged)
        /\ Len(writes) = Len(Tagged)
        /\ \A i \in 1..Len(Tagged) :
              /\ opened[i] = Tagged[i].path
              /\ writes[i].path = Tagged[i].path
              /\ writes[i].artist = album.artist
              /\ writes[i].albumartist = album.artist
              /\ writes[i].album = album.album
              /\ writes[i].title = Tagged[i].track
              /\ int(writes[i].tracknumber) =
                    [exc |-> "", value |-> FirstPosition(album.tracklist, Tagged[i].track)]
        /\ \A i \in 1..Len(fileChanges) :
              fileChanges[i].track = None =>
                  \A j \in 1..Len(opened) : opened[j] # fileChanges[i].path

\* The session ended with a file written and with another file, matched at
\* discovery, skipped because its track was set to None by entering 0
C11_Witness ==
    /\ pc = "done"
    /\ writes # <<>>
    /\ \E i \in 1..Len(fileChanges) :
          /\ fileChanges[i].track = None
          /\ chosen[i] = 0
          /\ identifyTrackFromFilePath(pathStem(fileChanges[i].path),
                                       album.tracklist).track # None

\* The required sections that the table lacks or holds empty
MissingSections ==
    {h \in {ARTIST_HEADER, ALBUM_HEADER, TRACKLIST_HEADER} :
        h \notin DOMAIN data \/ data[h] = <<>>}

ErrorNaming(h) ==
    IF h = ARTIST_HEADER THEN "No artist"
    ELSE IF h = ALBUM_HEADER THEN "No album"
    ELSE "No tracklist"

\* C12: once the table is parsed, the run is in the error state exactly when
\* a required section is absent or empty; then the message names a missing
\* section and no file was discovered, reviewed or written; otherwise artist
\* and album are the first entries of their sections and the tracklist is
\* the whole tracklist section in order.
C12_ParseChecksSections ==
    pc # "start" =>
        /\ pc = "error" <=> MissingSections # {}
        /\ pc = "error" =>
              /\ \E h \in MissingSections : msg = ErrorNaming(h)
              /\ album = NoAlbum
              /\ audioPaths = <<>> /\ fileChanges = <<>>
              /\ promptAt = "none" /\ shown = <<>>
              /\ opened = <<>> /\ writes = <<>>
        /\ pc # "error" =>
              /\ album.artist = data[ARTIST_HEADER][1]
              /\ album.album = data[ALBUM_HEADER][1]
              /\ album.tracklist = data[TRACKLIST_HEADER]

\* A file with artist and album and without tracklist section was refused
C12_Witness ==
    /\ pc = "error"
    /\ msg = "No tracklist"
    /\ TRACKLIST_HEADER \notin DOMAIN data
    /\ data[ARTIST_HEADER] # <<>>

-----------------------------------------------------------------------------
(* Properties of the match span *)

\* The entries of the change list that carry a span
Spanned == {i \in 1..Len(fileChanges) : fileChanges[i].match # <<0, 0>>}

\* C14 as claimed: the span stored in an entry is in original-filename
\* coordinates: it lies inside the original file stem and the text of the
\* original stem at [start, start + length) is the matched title (up to case
\* and skippable characters).
C14_SpanInOriginalCoordinates ==
    \A i \in Spanned :
        LET c == fileChanges[i]
            stem == pathStem(c.path)
        IN  /\ c.match[1] + c.match[2] <= Len(stem)
            /\ lowercaseSkippedString(slice(stem, c.match[1], c.match[1] + c.match[2]))
                  = lowercaseSkippedString(c.track)

\* C14 amended: the span stored in an entry is in coordinates of the
\* normalized file stem (lowercased, skippable characters removed): it lies
\* inside the normalized stem, the text of the normalized stem at
\* [start, start + length) is the normalized title, and no earlier offset of
\* the normalized stem holds the normalized title.
C14_SpanInNormalizedCoordinates ==
    \A i \in Spanned :
        LET c == fileChanges[i]
            file == lowercaseSkippedString(pathStem(c.path))
            track == lowercaseSkippedString(c.track)
        IN  /\ c.match[2] = Len(track)
            /\ c.match[1] + c.match[2] <= Len(file)
            /\ slice(file, c.match[1], c.match[1] + c.match[2]) = track
            /\ \A o \in 0..(c.match[1] - 1) : slice(file, o, o + c.match[2]) # track

\* 'b-a.mp3' matched title 'a' with span (1,1) although the 'a' stands at
\* offset 2 of the file name: a skippable character precedes the region
C14_Witness ==
    \E i \in Spanned :
        /\ fileChanges[i].path = Mp3(<<"b", "-", "a">>)
        /\ fileChanges[i].track = <<"a">>
        /\ fileChanges[i].match = <<1, 1>>
        /\ splitMatchedString(fileChanges[i].path, 1, 1).pre = <<"b", "-">>

\* C15 as claimed: for every entry that carries a span, splitMatchedString on
\* the displayed file name and the span indexes the index map within bounds,
\* and prefix + matched region + suffix is the file name.
C15_SplitReconstructsName ==
    \A i \in Spanned :
        LET c == fileChanges[i]
            r == splitMatchedString(c.path, c.match[1], c.match[2])
        IN  /\ r.exc = ""
            /\ r.pre \o r.match \o r.post = c.path

-----------------------------------------------------------------------------
(* Properties of the exceptions of the review *)

\* promptChanges was entered: every file was matched without an exception
ReviewEntered ==
    pc \notin {"start", "error", "discover"} /\ Len(fileChanges) = Len(dir)

\* C16 as claimed: of what is raised inside promptChanges only the Quit
\* signal leaves it as an exception: the review never ends in an uncaught
\* exception; it ends by a normal return only on Done (an empty line at the
\* Listing prompt) and by UserQuit only on a Quit line; Cancel (an empty line
\* at the Editing prompt) leads back to the Listing prompt.
C16_OnlyQuitEscapes ==
    ReviewEntered =>
        /\ pc # "crashed"
        /\ exc = ""
        /\ pc \in {"saving", "done"} =>
              /\ promptAt = "listing"
              /\ response = <<>>
              /\ returned = fileChanges
        /\ pc = "quit" => response \in QuitLines
        /\ (promptAt = "editing" /\ response = <<>>) =>
              pc = "listing"

-----------------------------------------------------------------------------
(* Properties of the change list during the session *)

\* C18: in every state an entry whose track is None has the span (0,0); an
\* entry with another span was never edited since discovery, its span has
\* a positive length and the text of the normalized file stem at the span is
\* the normalized title of its track.
C18_SentinelAndSpan ==
    /\ Len(chosen) = Len(fileChanges)
    /\ \A i \in 1..Len(fileChanges) :
          LET c == fileChanges[i]
              file == lowercaseSkippedString(pathStem(c.path))
          IN  /\ c.track = None => c.match = <<0, 0>>
              /\ c.match # <<0, 0>> =>
                    /\ chosen[i] = -1
                    /\ c.track # None
                    /\ c.match[2] > 0
                    /\ slice(file, c.match[1], c.match[1] + c.match[2])
                          = lowercaseSkippedString(c.track)

\* In a list shown at the Listing prompt one entry still carries the span of
\* its discovery and another one was edited: one was set to None, or one was
\* given a title
C18_Witness ==
    /\ pc = "listing"
    /\ \E i, j \in 1..Len(fileChanges) :
          /\ fileChanges[i].match # <<0, 0>> /\ chosen[i] = -1
          /\ chosen[j] = 0 /\ fileChanges[j].track = None
          /\ fileChanges[j].match = <<0, 0>>

\* The review loop is running or has ended
InReview == pc \in {"listing", "editing", "saving", "done", "quit"}

\* C19: from the first Listing prompt on, no step changes the length or the
\* order of the change list or the path of an entry; a step changes at most
\* the entry selected at the Listing prompt, and of it the track and the
\* match only.
C19_EditFrame ==
    [][InReview =>
          /\ Len(fileChanges') = Len(fileChanges)
          /\ \A j \in 1..Len(fileChanges) :
                /\ fileChanges'[j].path = fileChanges[j].path
                /\ j # selected => fileChanges'[j] = fileChanges[j]
          /\ fileChanges' # fileChanges =>
                /\ pc = "editing"
                /\ selected \in 1..Len(fileChanges)]_vars

\* One entry was given title number 1 while another entry still carries the
\* span of its discovery
C19_Witness ==
    /\ pc = "listing"
    /\ \E i, j \in 1..Len(fileChanges) :
          /\ i # j
          /\ chosen[i] = 1 /\ fileChanges[i].track = album.tracklist[1]
          /\ chosen[j] = -1 /\ fileChanges[j].match # <<0, 0>>

\* C20 as claimed: once the session is done, every file whose entry was last
\* given a title by entering number k >= 1 at the Editing prompt was written
\* the track number k.
C20_WrittenNumberIsChosen ==
    pc = "done" =>
        \A i \in 1..Len(fileChanges) :
            chosen[i] >= 1 =>
                \E w \in 1..Len(writes) :
                    /\ writes[w].path = fileChanges[i].path
                    /\ int(writes[w].tracknumber) = [exc |-> "", value |-> chosen[i]]

-----------------------------------------------------------------------------
(* Properties of the normalization *)

\* The characters that matching skips
Skipped == {" ", "\t", "\n", "(", ")", "[", "]", "{", "}", "-", "_"}

\* The normalization of a string: lowercased, without skipped characters
RECURSIVE Canon(_)
Canon(s) ==
    IF s = <<>> THEN <<>>
    ELSE IF Head(s) \in Skipped THEN Canon(Tail(s))
    ELSE lowerOf(Head(s)) \o Canon(Tail(s))

\* The strings of the same normalization as s
Variants(s) == {v \in NormPool \cup Strings : Canon(v) = Canon(s)}

\* What a call of the matcher on tracklist yields: the exception, the
\* position of the returned title (-1 for None), the start and the length
Outcome(r, tracklist) ==
    [exc |-> r.exc, position |-> index(tracklist, r.track),
     start |-> r.start, length |-> r.length]

\* What the call of the matcher of this run yielded
RunOutcome ==
    IF pc = "crashed"
    THEN [exc |-> exc, position |-> -1, start |-> 0, length |-> 0]
    ELSE [exc |-> "", position |-> index(album.tracklist, fileChanges[1].track),
          start |-> fileChanges[1].match[1], length |-> fileChanges[1].match[2]]

\* C13: the matcher yields the same track position, start and length (or
\* the same exception) when the file stem, or any one title, is replaced by
\* a string of the same normalization, that is one that differs in letter
\* case and in skippable characters only.
C13_NormalizationInvariance ==
    Matched =>
        LET stem == pathStem(dir[1])
            tl == album.tracklist
        IN  /\ \A stem2 \in Variants(stem) :
                  Outcome(identifyTrackFromFilePath(stem2, tl), tl) = RunOutcome
            /\ \A k \in 1..Len(tl) : \A t2 \in Variants(tl[k]) :
                  LET tl2 == [tl EXCEPT ![k] = t2]
                  IN  Outcome(identifyTrackFromFilePath(stem, tl2), tl2) = RunOutcome

\* File 'a_B.mp3' matched the title 'A b' with the full length of the
\* normalized title, as the file 'ab.mp3' would
C13_Witness ==
    /\ Matched
    /\ dir = <<Mp3(<<"a", "_", "B">>)>>
    /\ fileChanges = <<FileChanges(dir[1], <<"A", " ", "b">>, <<0, 2>>)>>
    /\ <<"a", "b">> \in Variants(pathStem(dir[1]))

-----------------------------------------------------------------------------
(* Properties of the metadata table reader *)

White == {" ", "\t", "\n"}

\* Line i of the file (1-based) without the byte-order mark that may start
\* the file and without its trailing whitespace
Text(i) ==
    LET l == IF i = 1 /\ lines[i][1] = BOM THEN Tail(lines[i]) ELSE lines[i]
        n == Max({k \in 0..Len(l) : k = 0 \/ l[k] \notin White})
    IN  SubSeq(l, 1, n)

IsBlank(i) == Text(i) = <<>>

IsHeader(i) ==
    Len(Text(i)) >= 2 /\ Text(i)[1] = "[" /\ Text(i)[Len(Text(i))] = "]"

HeaderName(i) == SubSeq(Text(i), 2, Len(Text(i)) - 1)

\* The section that line i belongs to: the name of the most recent header
\* before it, the empty name before the first header
SectionAt(i) ==
    LET hs == {j \in 1..(i - 1) : IsHeader(j)}
    IN  IF hs = {} THEN <<>> ELSE HeaderName(Max(hs))

\* The entries of section h among the first n lines, in file order
EntriesOf(h, n) ==
    LET own == SelectSeq([i \in 1..n |-> i],
                         LAMBDA i : ~IsBlank(i) /\ ~IsHeader(i) /\ SectionAt(i) = h)
    IN  [k \in 1..Len(own) |-> Text(own[k])]

\* C17: after any number of lines, the table has the section of the empty
\* name and one section per header name read, and the entries of each
\* section are the non-blank lines, not headers, whose most recent preceding
\* header names the section, in file order; so a repeated header reselects
\* its section without clearing it and a blank line changes nothing.
C17_SectionsCollectTheirLines ==
    /\ DOMAIN data = {<<>>} \cup {HeaderName(j) : j \in {i \in 1..lineIdx : IsHeader(i)}}
    /\ \A h \in DOMAIN data : data[h] = EntriesOf(h, lineIdx)
    /\ currentHeader = SectionAt(lineIdx + 1)

\* Section a got an entry, its header was repeated, and the next entry was
\* appended to the first
C17_Witness ==
    /\ lines = <<Line(<<"[", "a", "]">>), Line(<<"x">>),
                 Line(<<"[", "a", "]">>), Line(<<"y", " ">>)>>
    /\ lineIdx = 4
    /\ data[<<"a">>] = <<<<"x">>, <<"y">>>>

====
